---- MODULE Spec2Model ----
(***************************************************************************)
(* Model of cluster/datastore.go: Datastores that cache one shared Object  *)
(* held in a KV store, the watch-driven resync task of each Datastore, and *)
(* the Begin / Commit transaction protocol on the store's remote lock.     *)
(*                                                                         *)
(* Each Datastore has one caller, which keeps the Transaction of its       *)
(* latest Begin and drops the older ones. The KV store is the environment: *)
(* its calls fail, its lock expires, its stream closes and the lifetime    *)
(* context is cancelled at any time, MaxFaults times in a run.             *)
(*                                                                         *)
(* A step of the model is a piece of code between two points at which      *)
(* another Datastore or the store can see or change what it works on:      *)
(* taking or releasing localLock is joined to the store call next to it.   *)
(***************************************************************************)
EXTENDS Integers, FiniteSets, Sequences, TLC

\* ---- bounds ----
MaxTx == 2          \* ids that Begin generates in one run
MaxVal == 2         \* Object values are 0..MaxVal
MaxFaults == 1      \* failures, expiries, closures and cancellations in one run

Datastores == {1, 2}
TxIds == 1..MaxTx
Values == 0..MaxVal
NoTx == 0           \* the empty lock value: Metadata{} of NewDataStore
InitObj == 0        \* the Object handed to NewDataStore and first in the store

VARIABLES
  kvObject,     \* the Object as stored in the KV store
  kvLock,       \* the value stored at the lock key (Metadata.Lock in the store)
  lockHolder,   \* the id currently holding the remote lock, NoTx if free
  expired,      \* history: ids whose lock was taken away by TTL expiry
  lastWriter,   \* history: id whose StoreConfig wrote kvObject last
  faults,       \* history: number of faults so far
  kvCh,         \* per Datastore: a notification waits on kvCh
  chClosed,     \* per Datastore: the notification stream has closed
  ctxDone,      \* per Datastore: d.ctx is cancelled
  localLock,    \* per Datastore: "free", "resync" or "commit" (write holds)
  object,       \* per Datastore: d.object
  meta,         \* per Datastore: d.meta.Lock
  rs,           \* per Datastore: position of the watchChanges goroutine
  refreshed,    \* per Datastore: the Object loaded by the reload whose listener call is due
  reloadFrom,   \* per Datastore, history: d.object as it was when the reload under way began
  owed,         \* per Datastore, history: a consumed notification has no successful reload yet
  taskErr,      \* per Datastore: what RetryNotify returned to the goroutine ("none": still running)
  nextId,       \* the next id uuid.NewV4 returns
  id,           \* per Datastore: id of its caller's latest Begin (NoTx: none yet)
  bpc,          \* per Datastore: position / outcome of that Begin call
  lockGo,       \* per Datastore: state of the goroutine running remoteLock.Lock
  dirty,        \* per Datastore: datastoreTransaction.dirty of that Transaction
  okCount,      \* per Datastore, history: successful Commits on that Transaction
  blockedAtCancel, \* per Datastore, history: that Begin was blocked on Lock when d.ctx was cancelled
  calledAfterEnd, \* per Datastore, history: that Begin was called after the stream closure ended the resync goroutine
  cm,           \* per Datastore: the Commit call running under the write guard
  ret           \* per Datastore: what the last Commit on that Transaction returned

vars == <<kvObject, kvLock, lockHolder, expired, lastWriter, faults, kvCh,
          chClosed, ctxDone, localLock, object, meta, rs, refreshed,
          reloadFrom, owed, taskErr,
          nextId, id, bpc, lockGo, dirty, okCount, blockedAtCancel,
          calledAfterEnd, cm, ret>>

storeVars == <<kvObject, kvLock, lockHolder, expired, lastWriter, kvCh>>
envVars == <<chClosed, ctxDone>>
cacheVars == <<localLock, object, meta>>
watchVars == <<rs, refreshed, reloadFrom, owed, taskErr>>
beginVars == <<nextId, id, bpc, lockGo, blockedAtCancel, calledAfterEnd>>
commitVars == <<dirty, okCount, cm, ret>>

NoCommit == [pc |-> "none", v |-> InitObj, stored |-> FALSE]

\* NewDataStore: both Datastores are built with a listener.
HasListener(d) == d \in Datastores

\* NewDataStore + watchChanges up to the start of the goroutine.
Init ==
  /\ kvObject = InitObj
  /\ kvLock = NoTx
  /\ lockHolder = NoTx
  /\ expired = {}
  /\ lastWriter = NoTx
  /\ faults = 0
  /\ kvCh = [d \in Datastores |-> FALSE]
  /\ chClosed = [d \in Datastores |-> FALSE]
  /\ ctxDone = [d \in Datastores |-> FALSE]
  /\ localLock = [d \in Datastores |-> "free"]
  /\ object = [d \in Datastores |-> InitObj]
  /\ meta = [d \in Datastores |-> NoTx]
  /\ rs = [d \in Datastores |-> "select"]
  /\ refreshed = [d \in Datastores |-> InitObj]
  /\ reloadFrom = [d \in Datastores |-> InitObj]
  /\ owed = [d \in Datastores |-> FALSE]
  /\ taskErr = [d \in Datastores |-> "none"]
  /\ nextId = 1
  /\ id = [d \in Datastores |-> NoTx]
  /\ bpc = [d \in Datastores |-> "none"]
  /\ lockGo = [d \in Datastores |-> "none"]
  /\ dirty = [d \in Datastores |-> FALSE]
  /\ okCount = [d \in Datastores |-> 0]
  /\ blockedAtCancel = [d \in Datastores |-> FALSE]
  /\ calledAfterEnd = [d \in Datastores |-> FALSE]
  /\ cm = [d \in Datastores |-> NoCommit]
  /\ ret = [d \in Datastores |-> "none"]

\* One more fault fits in the run.
Fault == faults < MaxFaults /\ faults' = faults + 1

\* ---- the KV store ----

\* A change of the lock key reaches every watch that is still open; changes
\* its consumer has not picked up yet arrive as one notification.
Notify(ch) ==
  [d \in Datastores |-> IF chClosed[d] \/ rs[d] = "done" THEN ch[d] ELSE TRUE]

\* remoteLock.Lock returns with the lock: the store records the id at the
\* lock key; the goroutine sets errLock = nil and calls cancel(), which wakes
\* a Begin waiting in its select with case <-ctx.Done(): it goes on to the
\* sync check.
LockGrant(d) ==
  /\ lockGo[d] = "blocked"
  /\ lockHolder = NoTx
  /\ lockHolder' = id[d]
  /\ kvLock' = id[d]
  /\ kvCh' = Notify(kvCh)
  /\ lockGo' = [lockGo EXCEPT ![d] = "ok"]
  /\ bpc' = [bpc EXCEPT ![d] = IF @ = "select" THEN "sync" ELSE @]
  /\ UNCHANGED <<kvObject, expired, lastWriter, faults, envVars, cacheVars,
                 watchVars, nextId, id, blockedAtCancel, calledAfterEnd,
                 commitVars>>

\* remoteLock.Lock returns an error: errLock is set, and cancel() wakes a
\* Begin waiting in its select, which returns errLock.
LockFail(d) ==
  /\ lockGo[d] = "blocked"
  /\ Fault
  /\ lockGo' = [lockGo EXCEPT ![d] = "err"]
  /\ bpc' = [bpc EXCEPT ![d] = IF @ = "select" THEN "errLock" ELSE @]
  /\ UNCHANGED <<storeVars, envVars, cacheVars, watchVars, nextId, id,
                 blockedAtCancel, calledAfterEnd,
                 commitVars>>

\* The TTL of the remote lock runs out (LockOptions.TTL); the lock key keeps
\* the id of its last holder.
Expire ==
  /\ lockHolder # NoTx
  /\ Fault
  /\ expired' = expired \cup {lockHolder}
  /\ lockHolder' = NoTx
  /\ kvCh' = Notify(kvCh)
  /\ UNCHANGED <<kvObject, kvLock, lastWriter, envVars, cacheVars, watchVars,
                 beginVars, commitVars>>

\* The resync task of d waits in its select with no case ready: the first
\* case to become ready is the one the select takes.
Parked(d) == rs[d] = "select" /\ ~kvCh[d] /\ ~chClosed[d] /\ ~ctxDone[d]

\* The notification stream of d closes. A task waiting in its select wakes
\* with ok == false, calls cancel() and returns the nil err of d.kv.Watch.
CloseStream(d) ==
  /\ ~chClosed[d]
  /\ rs[d] # "done"
  /\ Fault
  /\ chClosed' = [chClosed EXCEPT ![d] = TRUE]
  /\ rs' = [rs EXCEPT ![d] = IF Parked(d) THEN "done" ELSE @]
  /\ taskErr' = [taskErr EXCEPT ![d] = IF Parked(d) THEN "nil" ELSE @]
  /\ UNCHANGED <<storeVars, ctxDone, cacheVars, refreshed, reloadFrom, owed,
                 beginVars, commitVars>>

\* The lifetime context of d is cancelled. d.ctx.Done() closes before the
\* Done() of its child, so a Begin waiting in its select wakes with
\* case <-d.ctx.Done() and goes to send on stopCh. A resync task waiting in
\* its select wakes with case <-ctx.Done() and goes to send on its stopCh.
Cancel(d) ==
  /\ ~ctxDone[d]
  /\ Fault
  /\ ctxDone' = [ctxDone EXCEPT ![d] = TRUE]
  /\ blockedAtCancel' = [blockedAtCancel EXCEPT ![d] = bpc[d] = "select"]
  /\ bpc' = [bpc EXCEPT ![d] = IF @ = "select" THEN "stopping" ELSE @]
  /\ rs' = [rs EXCEPT ![d] = IF Parked(d) THEN "stopping" ELSE @]
  /\ UNCHANGED <<storeVars, chClosed, cacheVars, refreshed, reloadFrom, owed,
                 taskErr, nextId, id, lockGo, calledAfterEnd, commitVars>>

\* ---- watchChanges: the resync goroutine ----

\* select, case <-ctx.Done(), for a task that comes to its select with the
\* context cancelled: taken also when kvCh is ready too (select picks among
\* the ready cases).
WatchCtxDone(d) ==
  /\ rs[d] = "select"
  /\ ctxDone[d]
  /\ rs' = [rs EXCEPT ![d] = "stopping"]
  /\ UNCHANGED <<storeVars, faults, envVars, cacheVars, refreshed, reloadFrom, owed, taskErr,
                 beginVars, commitVars>>

\* stopCh <- struct{}{} is received by the watch, operation returns nil and
\* RetryNotify ends without error. Nobody receives once the stream has closed.
WatchStopSent(d) ==
  /\ rs[d] = "stopping"
  /\ ~chClosed[d]
  /\ rs' = [rs EXCEPT ![d] = "done"]
  /\ taskErr' = [taskErr EXCEPT ![d] = "nil"]
  /\ UNCHANGED <<storeVars, faults, envVars, cacheVars, refreshed, reloadFrom, owed,
                 beginVars, commitVars>>

\* select, case _, ok := <-kvCh with ok: the notification is consumed, then
\* d.localLock.Lock(); err := d.kv.LoadConfig(d.object). On success the write
\* guard stays held; on error it is released and operation returns err.
WatchRecv(d) ==
  /\ rs[d] = "select"
  /\ kvCh[d]
  /\ localLock[d] = "free"
  /\ kvCh' = [kvCh EXCEPT ![d] = FALSE]
  /\ owed' = [owed EXCEPT ![d] = TRUE]
  /\ \/ /\ object' = [object EXCEPT ![d] = kvObject]
        /\ reloadFrom' = [reloadFrom EXCEPT ![d] = object[d]]
        /\ localLock' = [localLock EXCEPT ![d] = "resync"]
        /\ rs' = [rs EXCEPT ![d] = "loadMeta"]
        /\ UNCHANGED faults
     \/ /\ Fault
        /\ rs' = [rs EXCEPT ![d] = "backoff"]
        /\ UNCHANGED <<object, reloadFrom, localLock>>
  /\ UNCHANGED <<kvObject, kvLock, lockHolder, expired, lastWriter, envVars,
                 meta, refreshed, taskErr, beginVars, commitVars>>

\* A resync task that treats the closed stream as an error to retry.
WatchClosedRetries(d) ==
  /\ rs[d] = "select"
  /\ chClosed[d]
  /\ ~kvCh[d]
  /\ rs' = [rs EXCEPT ![d] = "backoff"]
  /\ UNCHANGED <<storeVars, faults, envVars, cacheVars, refreshed, reloadFrom,
                 owed, taskErr, beginVars, commitVars>>

\* The err that line 71 returns: the variable assigned by d.kv.Watch at
\* line 56, which is nil whenever watchChanges got past line 57.
WatchErr(d) == "nil"

\* select, case _, ok := <-kvCh with !ok: cancel(); return err. RetryNotify
\* ends with a nil result and retries on any other.
WatchClosed(d) ==
  /\ rs[d] = "select"
  /\ chClosed[d]
  /\ ~kvCh[d]
  /\ IF WatchErr(d) = "nil"
       THEN /\ rs' = [rs EXCEPT ![d] = "done"]
            /\ taskErr' = [taskErr EXCEPT ![d] = WatchErr(d)]
       ELSE /\ rs' = [rs EXCEPT ![d] = "backoff"]
            /\ UNCHANGED taskErr
  /\ UNCHANGED <<storeVars, faults, envVars, cacheVars, refreshed, reloadFrom, owed,
                 beginVars, commitVars>>

\* err = d.kv.LoadConfig(d.meta); d.localLock.Unlock() on both outcomes.
WatchLoadMeta(d) ==
  /\ rs[d] = "loadMeta"
  /\ localLock' = [localLock EXCEPT ![d] = "free"]
  /\ reloadFrom' = [reloadFrom EXCEPT ![d] = InitObj]
  /\ \/ /\ meta' = [meta EXCEPT ![d] = kvLock]
        /\ rs' = [rs EXCEPT ![d] = "listener"]
        /\ refreshed' = [refreshed EXCEPT ![d] = object[d]]
        /\ owed' = [owed EXCEPT ![d] = FALSE]
        /\ UNCHANGED faults
     \/ /\ Fault
        /\ rs' = [rs EXCEPT ![d] = "backoff"]
        /\ UNCHANGED <<meta, refreshed, owed>>
  /\ UNCHANGED <<storeVars, envVars, object, taskErr, beginVars, commitVars>>

\* The Object the listener is called with: d.object, read after the guard
\* was released.
ListenerArg(d) == object[d]

\* A resync task that returns the listener's error to RetryNotify.
WatchListenerErrorRetries(d) ==
  /\ rs[d] = "listener"
  /\ \E next \in {"select", "backoff"} : rs' = [rs EXCEPT ![d] = next]
  /\ refreshed' = [refreshed EXCEPT ![d] = InitObj]
  /\ UNCHANGED <<storeVars, faults, envVars, cacheVars, reloadFrom, owed, taskErr,
                 beginVars, commitVars>>

\* if d.listener != nil { d.listener(d.object) }; the listener's error is
\* only logged, and the loop goes back to its select.
WatchListener(d) ==
  /\ rs[d] = "listener"
  /\ rs' = [rs EXCEPT ![d] = "select"]
  /\ refreshed' = [refreshed EXCEPT ![d] = InitObj]
  /\ UNCHANGED <<storeVars, faults, envVars, cacheVars, reloadFrom, owed, taskErr,
                 beginVars, commitVars>>

\* backoff.RetryNotify: notify, sleep, then operation is called again and
\* starts at its select.
WatchRetry(d) ==
  /\ rs[d] = "backoff"
  /\ rs' = [rs EXCEPT ![d] = "select"]
  /\ UNCHANGED <<storeVars, faults, envVars, cacheVars, refreshed, reloadFrom, owed, taskErr,
                 beginVars, commitVars>>

\* ---- Get, Load ----

\* Get: the cached Object under a read hold.
Get(d) == object[d]

\* The read hold can be taken: no writer holds localLock.
CanRead(d) == localLock[d] = "free"

\* Load: LoadConfig(d.object) under the write hold, which is released on
\* return. A failing LoadConfig returns the error and changes nothing.
Load(d) ==
  /\ localLock[d] = "free"
  /\ object' = [object EXCEPT ![d] = kvObject]
  /\ UNCHANGED <<storeVars, faults, envVars, localLock, meta, watchVars,
                 beginVars, commitVars>>

\* ---- Begin ----

\* The caller of d has no Begin and no Commit in progress.
CallerIdle(d) ==
  /\ bpc[d] \in {"none", "tx", "errNewLock", "errLock", "errCancel", "errSync"}
  /\ lockGo[d] # "blocked"
  /\ cm[d].pc = "none"

\* Begin up to its select: a fresh id, d.kv.NewLock (which may fail), the
\* goroutine that blocks in remoteLock.Lock(stopCh), and the select. With
\* d.ctx live the select waits. With d.ctx cancelled already, ctx is done
\* too and the select picks either case: case <-d.ctx.Done() goes to send
\* on stopCh, case <-ctx.Done() finds errLock nil and goes on to the sync check.
BeginCall(d) ==
  /\ CallerIdle(d)
  /\ nextId <= MaxTx
  /\ nextId' = nextId + 1
  /\ id' = [id EXCEPT ![d] = nextId]
  /\ dirty' = [dirty EXCEPT ![d] = FALSE]
  /\ okCount' = [okCount EXCEPT ![d] = 0]
  /\ ret' = [ret EXCEPT ![d] = "none"]
  /\ blockedAtCancel' = [blockedAtCancel EXCEPT ![d] = FALSE]
  /\ calledAfterEnd' = [calledAfterEnd EXCEPT ![d] = chClosed[d] /\ rs[d] = "done"]
  /\ \/ /\ ~ctxDone[d]
        /\ bpc' = [bpc EXCEPT ![d] = "select"]
        /\ lockGo' = [lockGo EXCEPT ![d] = "blocked"]
        /\ UNCHANGED faults
     \/ /\ ctxDone[d]
        /\ \E b \in {"stopping", "sync"} : bpc' = [bpc EXCEPT ![d] = b]
        /\ lockGo' = [lockGo EXCEPT ![d] = "blocked"]
        /\ UNCHANGED faults
     \/ /\ Fault
        /\ bpc' = [bpc EXCEPT ![d] = "errNewLock"]
        /\ lockGo' = [lockGo EXCEPT ![d] = "none"]
  /\ UNCHANGED <<storeVars, envVars, cacheVars, watchVars, cm>>

\* Begin whose sync check returns the Transaction without comparing the
\* cached lock holder with the id.
BeginSyncSkipsCheck(d) ==
  /\ bpc[d] = "sync"
  /\ CanRead(d)
  /\ bpc' = [bpc EXCEPT ![d] = "tx"]
  /\ UNCHANGED <<storeVars, faults, envVars, cacheVars, watchVars, nextId, id,
                 lockGo, blockedAtCancel, calledAfterEnd, commitVars>>

\* The sync check: operation reads d.get().Lock under the read hold and
\* finds the id, Begin returns the datastoreTransaction. (A mismatch that
\* RetryNotify retries changes nothing.)
BeginSync(d) ==
  /\ bpc[d] = "sync"
  /\ CanRead(d)
  /\ meta[d] = id[d]
  /\ bpc' = [bpc EXCEPT ![d] = "tx"]
  /\ UNCHANGED <<storeVars, faults, envVars, cacheVars, watchVars, nextId, id,
                 lockGo, blockedAtCancel, calledAfterEnd,
                 commitVars>>

\* Begin that unlocks the remote lock when the sync check gives up.
BeginSyncTimeoutUnlocks(d) ==
  /\ bpc[d] = "sync"
  /\ CanRead(d)
  /\ meta[d] # id[d]
  /\ bpc' = [bpc EXCEPT ![d] = "errSync"]
  /\ lockHolder' = IF lockHolder = id[d] THEN NoTx ELSE lockHolder
  /\ kvCh' = Notify(kvCh)
  /\ UNCHANGED <<kvObject, kvLock, expired, lastWriter, faults, envVars,
                 cacheVars, watchVars, nextId, id, lockGo, blockedAtCancel, calledAfterEnd,
                 commitVars>>

\* The sync check with MaxElapsedTime used up on a mismatch: Begin returns
\* "Datastore cannot sync".
BeginSyncTimeout(d) ==
  /\ bpc[d] = "sync"
  /\ CanRead(d)
  /\ meta[d] # id[d]
  /\ bpc' = [bpc EXCEPT ![d] = "errSync"]
  /\ UNCHANGED <<storeVars, faults, envVars, cacheVars, watchVars, nextId, id,
                 lockGo, blockedAtCancel, calledAfterEnd,
                 commitVars>>

\* stopCh <- struct{}{} is received by the blocked Lock call, which gives up;
\* Begin returns d.ctx.Err(). Nobody receives once Lock has returned.
BeginStopSent(d) ==
  /\ bpc[d] = "stopping"
  /\ lockGo[d] = "blocked"
  /\ lockGo' = [lockGo EXCEPT ![d] = "stopped"]
  /\ bpc' = [bpc EXCEPT ![d] = "errCancel"]
  /\ UNCHANGED <<storeVars, faults, envVars, cacheVars, watchVars, nextId, id,
                 blockedAtCancel, calledAfterEnd,
                 commitVars>>

\* ---- datastoreTransaction.Commit ----

\* Variants of Commit with one slip each, used to show that the claims
\* below depend on what Commit does.

\* Commit that skips the s.dirty check.
CommitStoreNoDirtyCheck(d, v) ==
  /\ bpc[d] = "tx"
  /\ localLock[d] = "free"
  /\ \/ /\ kvObject' = v
        /\ lastWriter' = id[d]
        /\ localLock' = [localLock EXCEPT ![d] = "commit"]
        /\ cm' = [cm EXCEPT ![d] = [pc |-> "unlock", v |-> v, stored |-> TRUE]]
        /\ UNCHANGED <<faults, ret>>
     \/ /\ Fault
        /\ ret' = [ret EXCEPT ![d] = "storeErr"]
        /\ UNCHANGED <<kvObject, lastWriter, cm, localLock>>
  /\ UNCHANGED <<kvLock, lockHolder, expired, kvCh, envVars, object, meta,
                 watchVars, beginVars, dirty, okCount>>

\* Commit that calls remoteLock.Unlock before StoreConfig.
CommitStoreUnlockFirst(d, v) ==
  /\ bpc[d] = "tx"
  /\ localLock[d] = "free"
  /\ ~dirty[d]
  /\ lockHolder = id[d]
  /\ lockHolder' = NoTx
  /\ kvCh' = Notify(kvCh)
  /\ localLock' = [localLock EXCEPT ![d] = "commit"]
  /\ cm' = [cm EXCEPT ![d] = [pc |-> "unlock", v |-> v, stored |-> FALSE]]
  /\ UNCHANGED <<kvObject, lastWriter, faults, ret, kvLock, expired, envVars,
                 object, meta, watchVars, beginVars, dirty, okCount>>

\* Commit that releases the remote lock when StoreConfig fails.
CommitStoreReleasesOnError(d, v) ==
  /\ bpc[d] = "tx"
  /\ localLock[d] = "free"
  /\ IF dirty[d]
       THEN /\ ret' = [ret EXCEPT ![d] = "used"]
            /\ UNCHANGED <<kvObject, lastWriter, faults, cm, localLock,
                           lockHolder, kvCh>>
       ELSE \/ /\ kvObject' = v
               /\ lastWriter' = id[d]
               /\ localLock' = [localLock EXCEPT ![d] = "commit"]
               /\ cm' = [cm EXCEPT ![d] = [pc |-> "unlock", v |-> v, stored |-> TRUE]]
               /\ UNCHANGED <<faults, ret, lockHolder, kvCh>>
            \/ /\ Fault
               /\ ret' = [ret EXCEPT ![d] = "storeErr"]
               /\ lockHolder' = IF lockHolder = id[d] THEN NoTx ELSE lockHolder
               /\ kvCh' = Notify(kvCh)
               /\ UNCHANGED <<kvObject, lastWriter, cm, localLock>>
  /\ UNCHANGED <<kvLock, expired, envVars, object, meta, watchVars, beginVars,
                 dirty, okCount>>

\* s.localLock.Lock(); if s.dirty { return "already used" };
\* err := s.kv.StoreConfig(object); if err != nil { return err }.
\* The guard is released by the deferred Unlock when Commit returns here.
CommitStore(d, v) ==
  /\ bpc[d] = "tx"
  /\ localLock[d] = "free"
  /\ IF dirty[d]
       THEN /\ ret' = [ret EXCEPT ![d] = "used"]
            /\ UNCHANGED <<kvObject, lastWriter, faults, cm, localLock>>
       ELSE \/ /\ kvObject' = v
               /\ lastWriter' = id[d]
               /\ localLock' = [localLock EXCEPT ![d] = "commit"]
               /\ cm' = [cm EXCEPT ![d] = [pc |-> "unlock", v |-> v, stored |-> TRUE]]
               /\ UNCHANGED <<faults, ret>>
            \/ /\ Fault
               /\ ret' = [ret EXCEPT ![d] = "storeErr"]
               /\ UNCHANGED <<kvObject, lastWriter, cm, localLock>>
  /\ UNCHANGED <<kvLock, lockHolder, expired, kvCh, envVars, object, meta,
                 watchVars, beginVars, dirty, okCount>>

\* Commit that leaves s.Datastore.object as it was.
CommitUnlockNoCacheUpdate(d) ==
  /\ cm[d].pc = "unlock"
  /\ localLock' = [localLock EXCEPT ![d] = "free"]
  /\ cm' = [cm EXCEPT ![d] = NoCommit]
  /\ \/ /\ lockHolder = id[d]
        /\ lockHolder' = NoTx
        /\ kvCh' = Notify(kvCh)
        /\ dirty' = [dirty EXCEPT ![d] = TRUE]
        /\ okCount' = [okCount EXCEPT ![d] = IF @ < 2 THEN @ + 1 ELSE @]
        /\ ret' = [ret EXCEPT ![d] = "ok"]
        /\ UNCHANGED faults
     \/ /\ IF lockHolder = id[d] THEN Fault ELSE UNCHANGED faults
        /\ ret' = [ret EXCEPT ![d] = "unlockErr"]
        /\ UNCHANGED <<lockHolder, kvCh, dirty, okCount>>
  /\ UNCHANGED <<kvObject, kvLock, expired, lastWriter, envVars, meta,
                 watchVars, beginVars, object>>

\* Commit that never sets s.dirty.
CommitUnlockNoDirty(d) ==
  /\ cm[d].pc = "unlock"
  /\ localLock' = [localLock EXCEPT ![d] = "free"]
  /\ cm' = [cm EXCEPT ![d] = NoCommit]
  /\ \/ /\ lockHolder = id[d]
        /\ lockHolder' = NoTx
        /\ kvCh' = Notify(kvCh)
        /\ object' = [object EXCEPT ![d] = cm[d].v]
        /\ okCount' = [okCount EXCEPT ![d] = IF @ < 2 THEN @ + 1 ELSE @]
        /\ ret' = [ret EXCEPT ![d] = "ok"]
        /\ UNCHANGED faults
     \/ /\ IF lockHolder = id[d] THEN Fault ELSE UNCHANGED faults
        /\ ret' = [ret EXCEPT ![d] = "unlockErr"]
        /\ UNCHANGED <<lockHolder, kvCh, object, okCount>>
  /\ UNCHANGED <<kvObject, kvLock, expired, lastWriter, envVars, meta,
                 watchVars, beginVars, dirty>>

\* Commit that sets s.Datastore.object and s.dirty before it looks at the
\* result of Unlock.
CommitUnlockMarksFirst(d) ==
  /\ cm[d].pc = "unlock"
  /\ localLock' = [localLock EXCEPT ![d] = "free"]
  /\ cm' = [cm EXCEPT ![d] = NoCommit]
  /\ object' = [object EXCEPT ![d] = cm[d].v]
  /\ dirty' = [dirty EXCEPT ![d] = TRUE]
  /\ \/ /\ lockHolder = id[d]
        /\ lockHolder' = NoTx
        /\ kvCh' = Notify(kvCh)
        /\ okCount' = [okCount EXCEPT ![d] = IF @ < 2 THEN @ + 1 ELSE @]
        /\ ret' = [ret EXCEPT ![d] = "ok"]
        /\ UNCHANGED faults
     \/ /\ IF lockHolder = id[d] THEN Fault ELSE UNCHANGED faults
        /\ ret' = [ret EXCEPT ![d] = "unlockErr"]
        /\ UNCHANGED <<lockHolder, kvCh, okCount>>
  /\ UNCHANGED <<kvObject, kvLock, expired, lastWriter, envVars, meta,
                 watchVars, beginVars>>

\* err = s.remoteLock.Unlock(); on success s.Datastore.object = object and
\* s.dirty = true. Unlock fails when the lock is no longer held by this id,
\* and may fail while it is. Commit returns and the guard is released.
CommitUnlock(d) ==
  /\ cm[d].pc = "unlock"
  /\ localLock' = [localLock EXCEPT ![d] = "free"]
  /\ cm' = [cm EXCEPT ![d] = NoCommit]
  /\ \/ /\ lockHolder = id[d]
        /\ lockHolder' = NoTx
        /\ kvCh' = Notify(kvCh)
        /\ object' = [object EXCEPT ![d] = cm[d].v]
        /\ dirty' = [dirty EXCEPT ![d] = TRUE]
        /\ okCount' = [okCount EXCEPT ![d] = IF @ < 2 THEN @ + 1 ELSE @]
        /\ ret' = [ret EXCEPT ![d] = "ok"]
        /\ UNCHANGED faults
     \/ /\ IF lockHolder = id[d] THEN Fault ELSE UNCHANGED faults
        /\ ret' = [ret EXCEPT ![d] = "unlockErr"]
        /\ UNCHANGED <<lockHolder, kvCh, object, dirty, okCount>>
  /\ UNCHANGED <<kvObject, kvLock, expired, lastWriter, envVars, meta,
                 watchVars, beginVars>>

\* ---- specification ----

Next ==
  \/ \E d \in Datastores : LockGrant(d)
  \/ \E d \in Datastores : LockFail(d)
  \/ Expire
  \/ \E d \in Datastores : CloseStream(d)
  \/ \E d \in Datastores : Cancel(d)
  \/ \E d \in Datastores : WatchCtxDone(d)
  \/ \E d \in Datastores : WatchStopSent(d)
  \/ \E d \in Datastores : WatchRecv(d)
  \/ \E d \in Datastores : WatchClosed(d)
  \/ \E d \in Datastores : WatchLoadMeta(d)
  \/ \E d \in Datastores : WatchListener(d)
  \/ \E d \in Datastores : WatchRetry(d)
  \/ \E d \in Datastores : Load(d)
  \/ \E d \in Datastores : BeginCall(d)
  \/ \E d \in Datastores : BeginSync(d)
  \/ \E d \in Datastores : BeginSyncTimeout(d)
  \/ \E d \in Datastores : BeginStopSent(d)
  \/ \E d \in Datastores, v \in 1..MaxVal : CommitStore(d, v)
  \/ \E d \in Datastores : CommitUnlock(d)

Spec == Init /\ [][Next]_vars

\* ---- steps the claims speak about ----

\* This step is the StoreConfig of a Commit on d writing the store.
StoreStep(d) == cm[d].pc = "none" /\ cm'[d].pc = "unlock"

\* This step is remoteLock.Lock of d's Begin returning with the lock.
GrantStep(d) == lockGo[d] = "blocked" /\ lockGo'[d] = "ok"

\* This step is Begin on d returning its Transaction.
BeginReturnsTx(d) == bpc[d] = "sync" /\ bpc'[d] = "tx"

\* This step releases the remote lock held by d's Transaction, and not by expiry.
ReleaseStep(d) ==
  /\ id[d] # NoTx
  /\ lockHolder = id[d]
  /\ lockHolder' = NoTx
  /\ expired' = expired

\* This step is the listener of d being called.
ListenerStep(d) == rs[d] = "listener" /\ rs'[d] = "select" /\ HasListener(d)

\* ---- claims ----

\* C1: every StoreConfig of a Commit happens while the committing
\* Transaction is the holder of the remote lock: never after its lock has
\* expired or has been granted to another Transaction.
C1_CommitWritesUnderLock ==
  [][\A d \in Datastores : StoreStep(d) => lockHolder = id[d]]_vars

\* C2: two Begins never both succeed with overlapping validity: when the
\* Begin of one Datastore is granted the lock or returns its Transaction,
\* every Transaction the other Datastore's Begin has returned is over, by a
\* successful Commit or, at the latest, by the TTL taking its lock away.
C2_NoOverlappingTransactions ==
  [][\A d \in Datastores : (GrantStep(d) \/ BeginReturnsTx(d)) =>
        \A e \in Datastores \ {d} :
           bpc[e] = "tx" => (dirty[e] \/ id[e] \in expired)]_vars

\* C3: when Begin returns a Transaction, the cached lock holder is the
\* Transaction's id and the cached Object is the value of the last Commit
\* before the grant. With no expiry so far every write is made under the
\* lock, so that value is the one the store still holds.
C3_BeginReturnsSynced ==
  [][\A d \in Datastores : (BeginReturnsTx(d) /\ expired = {}) =>
        meta[d] = id[d] /\ object[d] = kvObject]_vars


\* C4: the remote lock is released by a Commit only after that Commit's
\* StoreConfig has succeeded: at the release the store holds the Commit's
\* value, unless another writer has written since.
C4_PersistBeforeRelease ==
  [][\A d \in Datastores : ReleaseStep(d) =>
        /\ cm[d].stored
        /\ (lastWriter = id[d] => kvObject = cm[d].v)]_vars

\* A Commit has stored its value and then released the lock.
C4_Witness ==
  \E d \in Datastores :
    /\ ret[d] = "ok"
    /\ lastWriter = id[d]
    /\ kvObject # InitObj
    /\ lockHolder = NoTx
    /\ expired = {}

\* C5: after a successful Commit(v) on d, Get(d) returns v, at once and
\* after later resync reloads, as long as no other writer has stored since.
\* (The Transaction wrote last, so kvObject is the v of its successful Commit.)
C5_ReadAfterCommit ==
  \A d \in Datastores :
    (dirty[d] /\ lastWriter = id[d] /\ CanRead(d)) => Get(d) = kvObject

\* The Commit succeeded and the notification of its lock release has been
\* consumed by a reload that succeeded; Get still returns v.
C5_Witness ==
  \E d \in Datastores :
    /\ dirty[d] /\ lastWriter = id[d]
    /\ ~chClosed[d] /\ ~kvCh[d] /\ rs[d] = "listener"
    /\ Get(d) = kvObject /\ kvObject # InitObj

\* C6: a Commit on a Transaction that has committed returns "already used"
\* and has no side effect: no store write, no unlock, cache unchanged.
C6_SecondCommitRejected ==
  [][\A d \in Datastores : (dirty[d] /\ id'[d] = id[d]) =>
        /\ cm'[d].pc = "none"
        /\ ret'[d] \in {"ok", "used"}
        /\ (ret'[d] # ret[d] =>
             /\ ret'[d] = "used"
             /\ kvObject' = kvObject /\ lastWriter' = lastWriter
             /\ lockHolder' = lockHolder /\ kvLock' = kvLock /\ kvCh' = kvCh
             /\ object' = object /\ meta' = meta /\ dirty' = dirty)]_vars

\* A second Commit on a committed Transaction has returned "already used".
C6_Witness ==
  \E d \in Datastores : dirty[d] /\ ret[d] = "used" /\ okCount[d] = 1

\* C7: at most one Commit on a Transaction succeeds; dirty is false when
\* Begin returns the Transaction, becomes true exactly in the step in which
\* a Commit succeeds, and stays true.
C7_Dirty ==
  /\ [](\A d \in Datastores : okCount[d] <= 1 /\ (dirty[d] <=> okCount[d] = 1))
  /\ [][\A d \in Datastores :
          /\ BeginReturnsTx(d) => ~dirty'[d]
          /\ (dirty[d] /\ id'[d] = id[d]) => dirty'[d]
          /\ (~dirty[d] /\ dirty'[d]) => (ret'[d] = "ok" /\ okCount'[d] = okCount[d] + 1)
          /\ (ret'[d] = "ok" /\ ret[d] # "ok") => (~dirty[d] /\ dirty'[d])]_vars

\* A Transaction has one successful Commit and a later Commit on it failed.
C7_Witness ==
  \E d \in Datastores : okCount[d] = 1 /\ dirty[d] /\ ret[d] = "used" /\ bpc[d] = "tx"


\* C8: a Begin that was blocked on lock acquisition when d.ctx was cancelled
\* returns the cancellation error and nothing else, its Lock call is told to
\* stop, and it leaves no lock held or still being acquired.
C8_CancelDuringAcquire ==
  \A d \in Datastores : blockedAtCancel[d] =>
    /\ bpc[d] \in {"stopping", "errCancel"}
    /\ (bpc[d] = "errCancel" => (lockGo[d] = "stopped" /\ lockHolder # id[d]))
    /\ (bpc[d] = "stopping" => lockGo[d] = "blocked")

\* C9: the listener is called with the Object the reload has just loaded.
C9_ListenerGetsRefreshed ==
  [][\A d \in Datastores : ListenerStep(d) => ListenerArg(d) = refreshed[d]]_vars

\* No lock is held and no Begin or Commit is under way: no change of the
\* lock key is on its way.
Quiet ==
  /\ lockHolder = NoTx
  /\ \A d \in Datastores : lockGo[d] # "blocked" /\ cm[d].pc = "none"

\* C10: a failed reload is attempted again until it succeeds, so once the
\* system is at rest the resync task, unless it was stopped, has brought the
\* cached Object to the store's value.
C10_ReloadRetried ==
  \A d \in Datastores :
    (owed[d] /\ rs[d] = "select" /\ ~kvCh[d] /\ ~ctxDone[d] /\ ~chClosed[d] /\ Quiet)
      => object[d] = kvObject

\* This step is a Commit on d's Transaction returning the error of StoreConfig.
StoreFailStep(d) == ret[d] # "storeErr" /\ ret'[d] = "storeErr"

\* C11: a Commit whose StoreConfig fails returns that error, leaves the
\* remote lock, the store, the cached Object and dirty as they were (dirty
\* unset), the Transaction stays usable, and a later Commit on it whose
\* StoreConfig and Unlock go through succeeds.
C11_StoreErrorKeepsTransaction ==
  /\ [](\A d \in Datastores : ret[d] = "storeErr" => (~dirty[d] /\ bpc[d] = "tx"))
  /\ [][\A d \in Datastores :
          /\ StoreFailStep(d) =>
               /\ lockHolder' = lockHolder /\ kvLock' = kvLock /\ kvCh' = kvCh
               /\ kvObject' = kvObject /\ lastWriter' = lastWriter
               /\ object' = object /\ meta' = meta
               /\ ~dirty'[d] /\ cm'[d].pc = "none" /\ localLock'[d] = "free"
          /\ (ret[d] = "storeErr" /\ cm[d].pc = "unlock" /\ cm'[d].pc = "none"
                /\ lockHolder = id[d] /\ faults' = faults) =>
               (ret'[d] = "ok" /\ dirty'[d] /\ object'[d] = cm[d].v)]_vars

\* After a Commit that failed in StoreConfig, a second Commit on the same
\* Transaction has stored its value and holds the lock it is about to release.
C11_Witness ==
  \E d \in Datastores :
    ret[d] = "storeErr" /\ cm[d].pc = "unlock" /\ lockHolder = id[d] /\ kvObject = cm[d].v

\* This step is Begin on d returning "Datastore cannot sync".
SyncTimeoutStep(d) == bpc[d] = "sync" /\ bpc'[d] = "errSync"

\* C12: when the cached lock holder has not become the id within the
\* bounded retry, Begin returns "cannot sync" and no Transaction, without
\* touching the remote lock: a lock granted to that id stays held under it
\* until the TTL takes it away.
C12_CannotSyncKeepsLock ==
  /\ [](\A d \in Datastores :
          (bpc[d] = "errSync" /\ lockGo[d] = "ok") =>
             (lockHolder = id[d] \/ id[d] \in expired))
  /\ [][\A d \in Datastores : SyncTimeoutStep(d) =>
          /\ meta[d] # id[d]
          /\ lockHolder' = lockHolder /\ kvLock' = kvLock /\ kvCh' = kvCh
          /\ expired' = expired]_vars

\* Begin has returned "cannot sync" after its lock was granted, and the lock
\* is still held under its id.
C12_Witness ==
  \E d \in Datastores :
    bpc[d] = "errSync" /\ lockGo[d] = "ok" /\ lockHolder = id[d] /\ kvLock = id[d]

\* C13: every operation reads the cached Object and Metadata under the
\* guard, so no read interleaves with a writer that holds the write guard:
\* the listener call and the two ends of Begin's sync check, which read the
\* cache, are taken only when no writer holds localLock.
C13_ReadsUnderGuard ==
  [][\A d \in Datastores :
        (ListenerStep(d) \/ BeginReturnsTx(d) \/ SyncTimeoutStep(d)) => CanRead(d)]_vars

\* This step is the resync task of d releasing the write guard after the
\* second load of a reload.
ReloadReleaseStep(d) == rs[d] = "loadMeta" /\ rs'[d] # "loadMeta"

\* C14: when the write guard is released after a reload attempt, the cached
\* Object and Metadata are both refreshed from the store or both as they were
\* before the attempt.
C14_PairFromOneReload ==
  [][\A d \in Datastores : ReloadReleaseStep(d) =>
        \/ (rs'[d] = "listener" /\ meta'[d] = kvLock)
        \/ (object'[d] = reloadFrom[d] /\ meta'[d] = meta[d])]_vars

\* The resync task of d has ended on the closure of its stream.
EndedByClosure(d) == chClosed[d] /\ rs[d] = "done"

\* This step is the resync task of d finding its stream closed.
ClosureStep(d) ==
  rs[d] = "select" /\ chClosed[d] /\ ~kvCh[d] /\ ~ctxDone[d] /\ rs'[d] # rs[d]

\* This step is a Load on d: it changes the cached Object and nothing else.
LoadStep(d) ==
  /\ object'[d] = kvObject
  /\ UNCHANGED <<storeVars, faults, envVars, localLock, meta, watchVars,
                 beginVars, commitVars>>

\* This step is a Commit on d's Transaction returning success.
CommitOkStep(d) ==
  /\ cm[d].pc = "unlock" /\ cm'[d].pc = "none"
  /\ ret'[d] = "ok" /\ object'[d] = cm[d].v

\* C15 as stated: once the resync task has ended on the closure of the
\* stream, the cached Object that Get and Load return stays as it was.
C15_FrozenAfterClosure ==
  [][\A d \in Datastores : EndedByClosure(d) => object'[d] = object[d]]_vars

\* C15 amended: on the closure of the stream the resync task ends without a
\* retry and stays ended; from then on the cached Metadata never changes and
\* the cached Object changes only by a Load, which reloads it from the
\* store, or by a successful Commit on that Datastore.
C15_OnlyLoadAndCommitAfterClosure ==
  [][\A d \in Datastores :
        /\ ClosureStep(d) => rs'[d] = "done"
        /\ EndedByClosure(d) =>
             /\ rs'[d] = "done" /\ chClosed'[d]
             /\ meta'[d] = meta[d]
             /\ (object'[d] # object[d] => (LoadStep(d) \/ CommitOkStep(d)))]_vars

\* The resync task of a Datastore that never began a Transaction and never
\* completed a reload has ended on closure, and a later Load has brought a
\* committed value into its cache.
C15_Witness ==
  \E d \in Datastores :
    /\ EndedByClosure(d)
    /\ id[d] = NoTx /\ meta[d] = NoTx
    /\ object[d] # InitObj /\ object[d] = kvObject

\* C16: the closure of the stream ends the resync operation with a non-nil
\* error, so that the goroutine's final error log is written, while the
\* shutdown on cancellation ends it without error.
C16_ClosureEndsWithError ==
  \A d \in Datastores :
    rs[d] = "done" => (IF chClosed[d] THEN taskErr[d] = "err" ELSE taskErr[d] = "nil")

\* This step is a Commit on d's Transaction returning the error of Unlock.
UnlockFailStep(d) ==
  cm[d].pc = "unlock" /\ cm'[d].pc = "none" /\ ret'[d] = "unlockErr"

\* C18: a Commit whose StoreConfig succeeds and whose Unlock fails returns
\* the unlock error with its value in the store, dirty unset, the cached
\* Object not replaced and the remote lock as it was; the Transaction stays
\* usable, so that a retried Commit stores again.
C18_UnlockErrorAfterStore ==
  /\ [](\A d \in Datastores : ret[d] = "unlockErr" => (~dirty[d] /\ bpc[d] = "tx"))
  /\ [][\A d \in Datastores : UnlockFailStep(d) =>
          /\ cm[d].stored
          /\ (lastWriter = id[d] => kvObject' = cm[d].v)
          /\ ~dirty'[d] /\ okCount'[d] = okCount[d]
          /\ object'[d] = object[d]
          /\ lockHolder' = lockHolder
          /\ cm'[d].pc = "none" /\ localLock'[d] = "free"]_vars

\* After a Commit that failed in Unlock, a retried Commit on the same
\* Transaction has stored again; the cache still holds another value.
C18_Witness ==
  \E d \in Datastores :
    ret[d] = "unlockErr" /\ cm[d].pc = "unlock" /\ kvObject = cm[d].v /\ object[d] # cm[d].v

\* C19: the listener is called only after a reload whose two loads both
\* succeeded, once for that reload and with the write guard released, never
\* after a failed reload; whatever the listener returns, the task neither
\* ends nor retries nor touches the cache, and goes back to its select for
\* the next notification.
C19_ListenerAfterReloadOnly ==
  [][\A d \in Datastores :
        /\ (rs[d] # "listener" /\ rs'[d] = "listener") =>
             /\ rs[d] = "loadMeta" /\ faults' = faults
             /\ meta'[d] = kvLock /\ ~owed'[d]
             /\ localLock[d] = "resync" /\ localLock'[d] = "free"
        /\ (rs[d] = "listener" /\ rs'[d] # "listener") =>
             /\ rs'[d] = "select" /\ ~owed[d] /\ localLock[d] # "resync"
             /\ object' = object /\ meta' = meta
             /\ taskErr' = taskErr /\ faults' = faults]_vars

\* After a completed reload and its listener call the task has taken the
\* next notification and is reloading again.
C19_Witness ==
  \E d \in Datastores :
    rs[d] = "loadMeta" /\ meta[d] # NoTx /\ ~chClosed[d] /\ ~ctxDone[d]

\* C20 as stated: once the stream closure has ended the resync task of a
\* Datastore, no Begin on that Datastore returns a Transaction.
C20_NoTransactionAfterTaskEnd ==
  [][\A d \in Datastores : EndedByClosure(d) => ~BeginReturnsTx(d)]_vars

\* C20: once the stream closure has ended the resync task of a Datastore its
\* cached Metadata never changes, so a Begin called from then on never holds
\* an id the cache shows and never returns a Transaction; when its sync check
\* ends it ends with "cannot sync" and leaves the remote lock as it is, and a
\* lock granted to it is taken from it by the TTL only.
C20_NoTransactionForBeginAfterTaskEnd ==
  /\ [](\A d \in Datastores :
          calledAfterEnd[d] =>
             /\ EndedByClosure(d)
             /\ meta[d] # id[d]
             /\ bpc[d] # "tx"
             /\ (lockGo[d] = "ok" => (lockHolder = id[d] \/ id[d] \in expired)))
  /\ [][\A d \in Datastores :
          /\ EndedByClosure(d) => meta'[d] = meta[d]
          /\ (calledAfterEnd[d] /\ bpc[d] = "sync" /\ bpc'[d] # "sync") =>
                /\ bpc'[d] = "errSync"
                /\ lockHolder' = lockHolder /\ kvLock' = kvLock
          /\ (calledAfterEnd[d] /\ lockHolder = id[d] /\ lockHolder' # id[d]) =>
                id[d] \in expired']_vars

\* A Begin called after the stream closure ended the resync task was granted
\* the remote lock, has returned "cannot sync", and the lock is still held
\* under its id.
C20_Witness ==
  \E d \in Datastores :
    /\ calledAfterEnd[d] /\ EndedByClosure(d)
    /\ bpc[d] = "errSync" /\ lockGo[d] = "ok" /\ lockHolder = id[d]

\* ---- shutdown ----

\* The Datastore whose caller begins and commits Transactions in the runs of
\* ShutdownSpec; the other one only watches and loads.
Writer == 1

\* As Init, with one fault more in hand: the cancellation of the lifetime
\* context comes on top of the MaxFaults faults of a run, so that it can
\* meet a resync task that is backing off or whose stream has closed.
ShutdownInit ==
  /\ kvObject = InitObj /\ kvLock = NoTx /\ lockHolder = NoTx
  /\ expired = {} /\ lastWriter = NoTx
  /\ faults = 0 - 1
  /\ kvCh = [d \in Datastores |-> FALSE]
  /\ chClosed = [d \in Datastores |-> FALSE]
  /\ ctxDone = [d \in Datastores |-> FALSE]
  /\ localLock = [d \in Datastores |-> "free"]
  /\ object = [d \in Datastores |-> InitObj]
  /\ meta = [d \in Datastores |-> NoTx]
  /\ rs = [d \in Datastores |-> "select"]
  /\ refreshed = [d \in Datastores |-> InitObj]
  /\ reloadFrom = [d \in Datastores |-> InitObj]
  /\ owed = [d \in Datastores |-> FALSE]
  /\ taskErr = [d \in Datastores |-> "none"]
  /\ nextId = 1
  /\ id = [d \in Datastores |-> NoTx]
  /\ bpc = [d \in Datastores |-> "none"]
  /\ lockGo = [d \in Datastores |-> "none"]
  /\ dirty = [d \in Datastores |-> FALSE]
  /\ okCount = [d \in Datastores |-> 0]
  /\ blockedAtCancel = [d \in Datastores |-> FALSE]
  /\ calledAfterEnd = [d \in Datastores |-> FALSE]
  /\ cm = [d \in Datastores |-> NoCommit]
  /\ ret = [d \in Datastores |-> "none"]

ShutdownNext ==
  \/ LockGrant(Writer)
  \/ LockFail(Writer)
  \/ Expire
  \/ \E d \in Datastores : CloseStream(d)
  \/ \E d \in Datastores : Cancel(d)
  \/ \E d \in Datastores : WatchCtxDone(d)
  \/ \E d \in Datastores : WatchStopSent(d)
  \/ \E d \in Datastores : WatchRecv(d)
  \/ \E d \in Datastores : WatchClosed(d)
  \/ \E d \in Datastores : WatchLoadMeta(d)
  \/ \E d \in Datastores : WatchListener(d)
  \/ \E d \in Datastores : WatchRetry(d)
  \/ \E d \in Datastores : Load(d)
  \/ BeginCall(Writer)
  \/ BeginSync(Writer)
  \/ BeginSyncTimeout(Writer)
  \/ BeginStopSent(Writer)
  \/ \E v \in 1..MaxVal : CommitStore(Writer, v)
  \/ CommitUnlock(Writer)

ShutdownSpec == ShutdownInit /\ [][ShutdownNext]_vars

\* C17: once d.ctx is cancelled, a resync task still running ends only by
\* sending the stop signal to the watch and returning nil, and it is never
\* left with a stop signal that nobody will receive.
C17_CancelStopsTask ==
  /\ [](\A d \in Datastores : (ctxDone[d] /\ rs[d] = "stopping") => ~chClosed[d])
  /\ [][\A d \in Datastores :
          (ctxDone[d] /\ rs[d] # "done" /\ rs'[d] = "done") =>
             (rs[d] = "stopping" /\ taskErr'[d] = "nil")]_vars

====
